---- MODULE Spec2Model ----
(***************************************************************************)
(* The configuration file store of opencbm/libmisc/configuration.c.        *)
(*                                                                         *)
(* A text is a sequence of one-character strings; a file on disk is a      *)
(* text or Absent.  A store is a sequence of sections, each with a         *)
(* sequence of entries, which stand for the linked lists of the code: a    *)
(* pointer to a list element is its index, a NULL pointer is the index 0,  *)
(* and a NULL string is the value NULL.                                    *)
(***************************************************************************)
EXTENDS Integers, Sequences, FiniteSets, TLC

VARIABLES
    disk,        \* [orig, tmp]: content of FileName and of FileNameForWrite
    phase,       \* per handle: "null", "open", "write", "unlink", "rename", "crashed"
    Sections,    \* per handle: Handle->Sections
    Changed,     \* per handle: Handle->Changed
    last,        \* the API call made last, with its result
    lastSet,     \* per handle: the last set call on the open handle
    preFlush,    \* per handle: content of FileName when the running close began
    nullStrcmp,  \* what strcmp(NULL, s) does in this build: "crash" or "nomatch"
    procs,       \* the handles in use
    nsets,       \* per handle: number of set calls so far
    closeError   \* per handle: what its close returned; -1 before and after open

vars == <<disk, phase, Sections, Changed, last, lastSet, preFlush, nullStrcmp,
          procs, nsets, closeError>>

----------------------------------------------------------------------------
(* Bounds of the model *)

MaxFileLen == 1     \* initial files: every text up to this length
MaxSets == 2        \* set calls per handle
MaxMallocs == 3     \* list elements a parse gets before malloc fails

(* the maximum line length we will accept in a configuration file *)
ASSUMED_MAX_LINE_LENGTH == 256

----------------------------------------------------------------------------
(* Strings *)

NULL == <<"NULL">>
Absent == <<"ABSENT">>
NL == "\n"

Handles == {1, 2}

FileAlphabet == {"a", "=", "#", " ", "[", "]", NL}

RECURSIVE Texts(_)
Texts(n) ==
    IF n = 0 THEN {<<>>}
    ELSE LET shorter == Texts(n - 1)
         IN  shorter \cup {Append(t, c) : t \in {s \in shorter : Len(s) = n - 1},
                                          c \in FileAlphabet}

(* longer files, with several sections, named and name-less entries *)
SampleFiles ==
    { <<"[","a","]",NL,"a","=","a",NL>>,
      <<"[","a","]",NL,"a","=","a",NL,"#","a",NL,"b","=","a",NL>>,
      <<"[","a","]",NL,"b","=","a"," ","#","a",NL,"#","a",NL,"[","b","]","#","a",NL,"a","=","b">>,
      <<"a","=","b",NL,"[","b","]",NL,"a",NL,"a","=","a",NL>>,
      <<"[","a","]",NL,"=","a","=","a",NL>>,
      <<" ","#","a",NL,"[","a","]",NL,"a","=","a"," ",NL>> }

InitFiles == Texts(MaxFileLen) \cup SampleFiles

(* arguments of the API calls *)
(* <<Section, Entry>>: two names each, a NULL Section and a NULL Entry *)
Names == {<<"a">>, <<"b">>}
NameArgs == (Names \X Names) \cup {<<NULL, <<"a">>>>, <<<<"a">>, NULL>>}
ValueArgs == {<<"b">>, <<"a", "#">>}
(* <<Section, Entry, Value>> of a set call; a call that fails at once is    *)
(* tried with one value                                                      *)
SetArgs == {<<n[1], n[2], v>> : n \in NameArgs, v \in ValueArgs}
               \ {<<n[1], n[2], <<"a", "#">>>> : n \in NameArgs \ (Names \X Names)}

(* strchr: index of the first c in s, 0 if there is none *)
RECURSIVE strchr_from(_, _, _)
strchr_from(s, c, i) ==
    IF i > Len(s) THEN 0
    ELSE IF s[i] = c THEN i
    ELSE strchr_from(s, c, i + 1)

strchr(s, c) == strchr_from(s, c, 1)

(* strrchr: index of the last c in s, 0 if there is none *)
RECURSIVE strrchr_from(_, _, _)
strrchr_from(s, c, i) ==
    IF i = 0 THEN 0
    ELSE IF s[i] = c THEN i
    ELSE strrchr_from(s, c, i - 1)

strrchr(s, c) == strrchr_from(s, c, Len(s))

Min(a, b) == IF a < b THEN a ELSE b

----------------------------------------------------------------------------
(* Allocation of entries and sections *)

(* an entry_alloc_new that puts every new entry in front of the section *)
entry_alloc_new_at_head(Entries, PreviousEntry, EntryName, Value, Comment) ==
    [Entries  |-> <<[Name    |-> EntryName,
                     Value   |-> Value,
                     Comment |-> IF Comment = NULL THEN <<>> ELSE Comment]>>
                  \o Entries,
     newEntry |-> 1]

(* entry_alloc_new: the new entry is linked after PreviousEntry (whose Next   *)
(* is overwritten), or as the first entry when PreviousEntry is NULL.  A NULL *)
(* Comment becomes the empty string, a NULL EntryName and a NULL Value stay   *)
(* NULL.  Yields the entries of the section and the position of the new one.  *)
entry_alloc_new(Entries, PreviousEntry, EntryName, Value, Comment) ==
    LET newEntry == [Name    |-> EntryName,
                     Value   |-> Value,
                     Comment |-> IF Comment = NULL THEN <<>> ELSE Comment]
    IN  IF PreviousEntry # 0
        THEN [Entries  |-> Append(SubSeq(Entries, 1, PreviousEntry), newEntry),
              newEntry |-> PreviousEntry + 1]
        ELSE [Entries  |-> <<newEntry>> \o Entries,
              newEntry |-> 1]

(* a section_alloc_new that links every later section directly behind the  *)
(* first one, in front of the sections that were there                      *)
section_alloc_new_behind_head(Secs, PreviousSection, SectionName, Comment) ==
    LET newSection == [Name    |-> SectionName,
                       Comment |-> IF Comment = NULL THEN <<>> ELSE Comment,
                       Entries |-> <<>>]
    IN  IF PreviousSection # 0
        THEN [Sections   |-> <<Head(Secs), newSection>> \o Tail(Secs),
              newSection |-> 2]
        ELSE [Sections   |-> <<newSection>> \o Secs,
              newSection |-> 1]

(* a section_alloc_new that puts every new section in front of the list *)
section_alloc_new_at_head(Secs, PreviousSection, SectionName, Comment) ==
    [Sections   |-> <<[Name |-> SectionName,
                       Comment |-> IF Comment = NULL THEN <<>> ELSE Comment,
                       Entries |-> <<>>]>> \o Secs,
     newSection |-> 1]

(* section_alloc_new: the same for a section *)
section_alloc_new(Secs, PreviousSection, SectionName, Comment) ==
    LET newSection == [Name    |-> SectionName,
                       Comment |-> IF Comment = NULL THEN <<>> ELSE Comment,
                       Entries |-> <<>>]
    IN  IF PreviousSection # 0
        THEN [Sections   |-> Append(SubSeq(Secs, 1, PreviousSection), newSection),
              newSection |-> PreviousSection + 1]
        ELSE [Sections   |-> <<newSection>> \o Secs,
              newSection |-> 1]

----------------------------------------------------------------------------
(* Reading lines.  A FILE opened for reading is [data, eof]: the text not   *)
(* yet read and the end-of-file indicator.                                  *)

(* fgets(addbuffer, n, File): at most n - 1 characters, up to and with the  *)
(* first newline; the end-of-file indicator is set when the file ends       *)
(* before that.                                                             *)
fgets(File, n) ==
    LET nl   == strchr(File.data, NL)
        k    == IF nl = 0 THEN Min(Len(File.data), n - 1) ELSE Min(nl, n - 1)
    IN  [chunk |-> SubSeq(File.data, 1, k),
         File  |-> [data |-> SubSeq(File.data, k + 1, Len(File.data)),
                    eof  |-> File.eof \/ (nl = 0 /\ Len(File.data) < n - 1)]]

(* read_a_complete_line: chunks are concatenated until one ends with a      *)
(* newline (which is cut off) or fgets returns NULL at the end of the file; *)
(* with nothing read the result is the empty string.                        *)
RECURSIVE read_a_complete_line_loop(_, _)

(* the rest of one turn of the loop, with buffer already joined *)
read_a_complete_line_joined(buffer, File) ==
    IF buffer[Len(buffer)] = NL
    THEN [buffer |-> SubSeq(buffer, 1, Len(buffer) - 1), File |-> File]
    ELSE read_a_complete_line_loop(buffer, File)

(* one turn of the loop, g being what fgets yields *)
read_a_complete_line_turn(buffer, g) ==
    IF g.chunk = <<>>
    THEN [buffer |-> IF buffer = NULL THEN <<>> ELSE buffer, File |-> g.File]
    ELSE read_a_complete_line_joined(
             IF buffer = NULL THEN g.chunk ELSE buffer \o g.chunk, g.File)

read_a_complete_line_loop(buffer, File) ==
    read_a_complete_line_turn(buffer, fgets(File, ASSUMED_MAX_LINE_LENGTH))

read_a_complete_line(File) == read_a_complete_line_loop(NULL, File)

(* configuration_read_line_handle_comment: the comment is a copy of Buffer, *)
(* unless Buffer is empty                                                   *)
configuration_read_line_handle_comment(Buffer) ==
    IF Buffer = <<>> THEN NULL ELSE Buffer

IsTrimmed(c) == c \in {" ", "\t", "\r", NL}

(* the while loop of configuration_read_line: p walks back from the '#' (or *)
(* the end of the line) over SPACE, TAB, CR and NL; yields the number of    *)
(* characters that stay in the line, 0 when p reaches the buffer's start    *)
RECURSIVE trim_back(_, _)
trim_back(buffer, p) ==
    IF p = 0 THEN 0
    ELSE IF IsTrimmed(buffer[p]) THEN trim_back(buffer, p - 1)
    ELSE p

(* configuration_read_line for a line that does not begin with '#': the   *)
(* first cut characters stay in the line, the rest is the comment           *)
configuration_read_line_cut(buffer, cut, File) ==
    [ret     |-> SubSeq(buffer, 1, cut),
     Comment |-> IF cut > 0
                 THEN configuration_read_line_handle_comment(
                          SubSeq(buffer, cut + 1, Len(buffer)))
                 ELSE NULL,
     File    |-> File]

(* the place p starts from: the first '#', or the end of the line *)
comment_start(buffer) ==
    IF strchr(buffer, "#") = 0 THEN Len(buffer) ELSE strchr(buffer, "#") - 1

(* configuration_read_line, once the line is read into buffer *)
configuration_read_line_buffer(buffer, File) ==
    IF buffer # <<>> /\ buffer[1] = "#"
    THEN [ret     |-> NULL,
          Comment |-> configuration_read_line_handle_comment(buffer),
          File    |-> File]
    ELSE configuration_read_line_cut(
             buffer, trim_back(buffer, comment_start(buffer)), File)

configuration_read_line_read(r) == configuration_read_line_buffer(r.buffer, r.File)

(* configuration_read_line: [ret, Comment, File] *)
configuration_read_line(File) ==
    IF File.eof
    THEN [ret |-> NULL, Comment |-> NULL, File |-> File]
    ELSE configuration_read_line_read(read_a_complete_line(File))

----------------------------------------------------------------------------
(* Parsing *)

RECURSIVE parse_loop(_, _, _, _)

(* a line that starts a section: "[name]" *)
parse_section(Secs, currentSection, sectionName, Comment, File) ==
    LET p == strrchr(sectionName, "]")
        a == section_alloc_new(Secs, currentSection,
                               IF p # 0 THEN SubSeq(sectionName, 1, p - 1)
                               ELSE sectionName,
                               Comment)
    IN  parse_loop(a.Sections, a.newSection, 0, File)

(* a line of the current section: "name=value", or a line without '=' *)
parse_entry(Secs, currentSection, previousEntry, line, Comment, File) ==
    LET p         == IF line = NULL THEN 0 ELSE strchr(line, "=")
        entryName == IF p = 0 THEN NULL ELSE SubSeq(line, 1, p - 1)
        value     == IF line = NULL THEN NULL
                     ELSE IF p = 0 THEN line
                     ELSE SubSeq(line, p + 1, Len(line))
        e         == entry_alloc_new(Secs[currentSection].Entries,
                                     previousEntry, entryName, value, Comment)
    IN  parse_loop([Secs EXCEPT ![currentSection].Entries = e.Entries],
                   currentSection, e.newEntry, File)

(* one turn of the loop of opencbm_configuration_parse_file *)
parse_line(Secs, currentSection, previousEntry, line, Comment, File) ==
    IF line = NULL /\ Comment = NULL
    THEN Secs
    ELSE IF line # NULL /\ line # <<>> /\ line[1] = "["
    THEN parse_section(Secs, currentSection, SubSeq(line, 2, Len(line)),
                       Comment, File)
    ELSE parse_entry(Secs, currentSection, previousEntry, line, Comment, File)

parse_read(Secs, currentSection, previousEntry, r) ==
    parse_line(Secs, currentSection, previousEntry, r.ret, r.Comment, r.File)

(* the loop of opencbm_configuration_parse_file *)
parse_loop(Secs, currentSection, previousEntry, File) ==
    parse_read(Secs, currentSection, previousEntry, configuration_read_line(File))

(* opencbm_configuration_parse_file: the global section first, then the lines *)
opencbm_configuration_parse_file(text) ==
    LET g == section_alloc_new(<<>>, 0, NULL, <<>>)
    IN  parse_loop(g.Sections, g.newSection, 0, [data |-> text, eof |-> FALSE])

(* The parser when memory runs out: mallocs is the number of list elements  *)
(* (sections and entries) that malloc still gives; the malloc of the next   *)
(* one returns NULL, section_alloc_new or entry_alloc_new returns NULL and  *)
(* the loop is left with error = 1.  Yields [Sections, error].              *)
RECURSIVE parse_loop_alloc(_, _, _, _, _)

parse_line_alloc(Secs, currentSection, previousEntry, r, mallocs) ==
    IF r.ret = NULL /\ r.Comment = NULL
    THEN [Sections |-> Secs, error |-> 0]
    ELSE IF mallocs = 0
    THEN [Sections |-> Secs, error |-> 1]
    ELSE IF r.ret # NULL /\ r.ret # <<>> /\ r.ret[1] = "["
    THEN LET sectionName == SubSeq(r.ret, 2, Len(r.ret))
             p == strrchr(sectionName, "]")
             a == section_alloc_new(Secs, currentSection,
                                    IF p # 0 THEN SubSeq(sectionName, 1, p - 1)
                                    ELSE sectionName,
                                    r.Comment)
         IN  parse_loop_alloc(a.Sections, a.newSection, 0, r.File, mallocs - 1)
    ELSE LET p         == IF r.ret = NULL THEN 0 ELSE strchr(r.ret, "=")
             entryName == IF p = 0 THEN NULL ELSE SubSeq(r.ret, 1, p - 1)
             value     == IF r.ret = NULL THEN NULL
                          ELSE IF p = 0 THEN r.ret
                          ELSE SubSeq(r.ret, p + 1, Len(r.ret))
             e         == entry_alloc_new(Secs[currentSection].Entries,
                                          previousEntry, entryName, value,
                                          r.Comment)
         IN  parse_loop_alloc([Secs EXCEPT ![currentSection].Entries = e.Entries],
                              currentSection, e.newEntry, r.File, mallocs - 1)

parse_loop_alloc(Secs, currentSection, previousEntry, File, mallocs) ==
    parse_line_alloc(Secs, currentSection, previousEntry,
                     configuration_read_line(File), mallocs)

(* opencbm_configuration_parse_file with mallocs list elements to be had *)
parse_file_alloc(text, mallocs) ==
    IF mallocs = 0
    THEN [Sections |-> <<>>, error |-> 1]
    ELSE LET g == section_alloc_new(<<>>, 0, NULL, <<>>)
         IN  parse_loop_alloc(g.Sections, g.newSection, 0,
                              [data |-> text, eof |-> FALSE], mallocs - 1)

----------------------------------------------------------------------------
(* Writing *)

(* the fprintf of one entry: "%s%s%s%s\n" *)
EntryLine(e) ==
    (IF e.Name # NULL THEN e.Name ELSE <<>>)
    \o (IF e.Name # NULL /\ e.Name # <<>> THEN <<"=">> ELSE <<>>)
    \o (IF e.Value # NULL THEN e.Value ELSE <<>>)
    \o e.Comment \o <<NL>>

(* the fprintf of a section header: "[%s]%s\n"; a NULL name is printed as   *)
(* "(null)"                                                                 *)
SectionLine(s) ==
    <<"[">> \o (IF s.Name # NULL THEN s.Name ELSE <<"(", "n", "u", "l", "l", ")">>)
    \o <<"]">> \o s.Comment \o <<NL>>

RECURSIVE EntryLines(_)
EntryLines(Entries) ==
    IF Entries = <<>> THEN <<>>
    ELSE <<EntryLine(Head(Entries))>> \o EntryLines(Tail(Entries))

(* the fprintf calls of opencbm_configuration_write_file, in order; the     *)
(* first section has no header line                                         *)
RECURSIVE write_lines(_, _)
write_lines(Secs, i) ==
    IF i > Len(Secs) THEN <<>>
    ELSE (IF i # 1 THEN <<SectionLine(Secs[i])>> ELSE <<>>)
         \o EntryLines(Secs[i].Entries)
         \o write_lines(Secs, i + 1)

RECURSIVE Concat(_)
Concat(lines) ==
    IF lines = <<>> THEN <<>> ELSE Head(lines) \o Concat(Tail(lines))

(* what the first n fprintf calls leave in the file *)
Written(Secs, n) == Concat(SubSeq(write_lines(Secs, 1), 1, n))

(* the complete file of a store *)
WriteText(Secs) == Concat(write_lines(Secs, 1))

----------------------------------------------------------------------------
(* Lookup and mutation *)

(* the section loop of opencbm_configuration_find_data: the first section   *)
(* whose name matches; a section without a name matches a NULL Section only *)
RECURSIVE find_section(_, _, _)
find_section(Secs, Section, i) ==
    IF i > Len(Secs) THEN 0
    ELSE LET foundSection ==
                 IF Secs[i].Name = NULL THEN Section = NULL
                 ELSE Section # NULL /\ Secs[i].Name = Section
         IN  IF foundSection THEN i ELSE find_section(Secs, Section, i + 1)

(* the entry loop of opencbm_configuration_find_data, from entry i on.      *)
(* strcmp(currentEntry->Name, Entry) with a NULL Name is undefined: the     *)
(* build either stops the process there or takes the names as different.    *)
(* lastEntry is the last entry passed that has a name.                      *)
RECURSIVE scan_entries(_, _, _, _)
scan_entries(Entries, Entry, i, lastEntry) ==
    IF i > Len(Entries)
    THEN [foundEntry |-> 0, lastEntry |-> lastEntry, crash |-> FALSE]
    ELSE IF Entries[i].Name = NULL
    THEN IF nullStrcmp = "crash"
         THEN [foundEntry |-> 0, lastEntry |-> lastEntry, crash |-> TRUE]
         ELSE scan_entries(Entries, Entry, i + 1, lastEntry)
    ELSE IF Entries[i].Name = Entry
    THEN [foundEntry |-> i, lastEntry |-> lastEntry, crash |-> FALSE]
    ELSE scan_entries(Entries, Entry, i + 1, i)

(* opencbm_configuration_find_data: [Sections, section, foundEntry, crash]; *)
(* foundEntry = 0 is the NULL result                                        *)
opencbm_configuration_find_data(Secs, Section, Entry, Create) ==
    LET none == [Sections |-> Secs, section |-> 0, foundEntry |-> 0, crash |-> FALSE]
    IN  IF Section = NULL \/ Entry = NULL THEN none
        ELSE
        LET currentSection == find_section(Secs, Section, 1)
            lastSection    == IF currentSection = 0 THEN Len(Secs) ELSE currentSection - 1
            scan == IF currentSection = 0
                    THEN [foundEntry |-> 0, lastEntry |-> 0, crash |-> FALSE]
                    ELSE scan_entries(Secs[currentSection].Entries, Entry, 1, 0)
        IN  IF scan.crash THEN [none EXCEPT !.crash = TRUE]
            ELSE IF scan.foundEntry # 0
            THEN [none EXCEPT !.section = currentSection, !.foundEntry = scan.foundEntry]
            ELSE IF Create = 0 THEN none
            ELSE
            LET a  == IF currentSection = 0
                      THEN section_alloc_new(Secs, lastSection, Section, NULL)
                      ELSE [Sections |-> Secs, newSection |-> currentSection]
                e  == entry_alloc_new(a.Sections[a.newSection].Entries,
                                      scan.lastEntry, Entry, NULL, NULL)
            IN  [Sections   |-> [a.Sections EXCEPT ![a.newSection].Entries = e.Entries],
                 section    |-> a.newSection,
                 foundEntry |-> e.newEntry,
                 crash      |-> FALSE]

(* opencbm_configuration_get_data: [Sections, error, ReturnBuffer, crash] *)
opencbm_configuration_get_data(Secs, Section, Entry) ==
    LET f == opencbm_configuration_find_data(Secs, Section, Entry, 0)
    IN  IF f.crash
        THEN [Sections |-> Secs, error |-> 1, ReturnBuffer |-> NULL, crash |-> TRUE]
        ELSE IF f.foundEntry = 0
                \/ f.Sections[f.section].Entries[f.foundEntry].Value = NULL
        THEN [Sections |-> f.Sections, error |-> 1, ReturnBuffer |-> NULL, crash |-> FALSE]
        ELSE [Sections     |-> f.Sections,
              error        |-> 0,
              ReturnBuffer |-> f.Sections[f.section].Entries[f.foundEntry].Value,
              crash        |-> FALSE]

(* a set_data that leaves the entry it found as it is and puts a second     *)
(* entry of that name in front of the section                               *)
set_data_duplicates(Secs, Chg, Section, Entry, Value) ==
    LET f == opencbm_configuration_find_data(Secs, Section, Entry, 1)
    IN  IF f.crash
        THEN [Sections |-> Secs, Changed |-> Chg, error |-> 1, crash |-> TRUE]
        ELSE IF f.foundEntry = 0
        THEN [Sections |-> f.Sections, Changed |-> Chg, error |-> 1, crash |-> FALSE]
        ELSE [Sections |-> [f.Sections EXCEPT ![f.section].Entries =
                               entry_alloc_new(@, 0, Entry, Value, NULL).Entries],
              Changed  |-> 1,
              error    |-> 0,
              crash    |-> FALSE]

(* a set_data that finds or makes the entry and forgets to store the value *)
set_data_without_store(Secs, Chg, Section, Entry, Value) ==
    LET f == opencbm_configuration_find_data(Secs, Section, Entry, 1)
    IN  IF f.crash
        THEN [Sections |-> Secs, Changed |-> Chg, error |-> 1, crash |-> TRUE]
        ELSE IF f.foundEntry = 0
        THEN [Sections |-> f.Sections, Changed |-> Chg, error |-> 1, crash |-> FALSE]
        ELSE [Sections |-> f.Sections, Changed |-> 1, error |-> 0, crash |-> FALSE]

(* opencbm_configuration_set_data: [Sections, Changed, error, crash] *)
opencbm_configuration_set_data(Secs, Chg, Section, Entry, Value) ==
    LET f == opencbm_configuration_find_data(Secs, Section, Entry, 1)
    IN  IF f.crash
        THEN [Sections |-> Secs, Changed |-> Chg, error |-> 1, crash |-> TRUE]
        ELSE IF f.foundEntry = 0
        THEN [Sections |-> f.Sections, Changed |-> Chg, error |-> 1, crash |-> FALSE]
        ELSE [Sections |-> [f.Sections EXCEPT
                               ![f.section].Entries[f.foundEntry].Value = Value],
              Changed  |-> 1,
              error    |-> 0,
              crash    |-> FALSE]

(* opencbm_configuration_set_data when one allocation of the call fails:    *)
(* which = "section": the malloc of section_alloc_new; find_data goes on to *)
(*    entry_alloc_new with a NULL section, where the assert, or without it  *)
(*    the access to CurrentSection->Entries, stops the process;             *)
(* which = "entry": the malloc of entry_alloc_new; find_data returns NULL   *)
(*    and set returns 1 before Changed is touched, a section made for the   *)
(*    entry stays in the list;                                              *)
(* which = "value": the strdup of Value, after Changed was set; an entry    *)
(*    made for the value stays, with a NULL value.                          *)
(* applies is FALSE when the call does not come to that allocation.         *)
set_data_alloc(Secs, Chg, Section, Entry, Value, which) ==
    LET f0   == opencbm_configuration_find_data(Secs, Section, Entry, 0)
        f1   == opencbm_configuration_find_data(Secs, Section, Entry, 1)
        have == Section # NULL /\ Entry # NULL
                /\ find_section(Secs, Section, 1) # 0
        same == [Sections |-> Secs, Changed |-> Chg, error |-> 1,
                 crash |-> FALSE, applies |-> TRUE]
    IN  IF Section = NULL \/ Entry = NULL
        THEN [same EXCEPT !.applies = FALSE]
        ELSE IF f0.crash
        THEN [same EXCEPT !.crash = TRUE, !.applies = FALSE]
        ELSE IF which = "section"
        THEN [same EXCEPT !.crash = TRUE, !.applies = ~have]
        ELSE IF which = "entry"
        THEN [same EXCEPT
                 !.Sections = IF have THEN Secs
                              ELSE section_alloc_new(Secs, Len(Secs), Section,
                                                     NULL).Sections,
                 !.applies = (f0.foundEntry = 0)]
        ELSE [same EXCEPT !.Sections = f1.Sections, !.Changed = 1]

----------------------------------------------------------------------------
(* The state machine *)

(* no call yet *)
NoCall == [op |-> "none"]

Init ==
    /\ disk \in [orig : InitFiles \cup {Absent}, tmp : {Absent}]
    /\ phase = [h \in Handles |-> "null"]
    /\ Sections = [h \in Handles |-> <<>>]
    /\ Changed = [h \in Handles |-> 0]
    /\ last = NoCall
    /\ lastSet = [h \in Handles |-> NoCall]
    /\ preFlush = [h \in Handles |-> NULL]
    /\ nullStrcmp \in {"crash", "nomatch"}
    /\ procs = {1}
    /\ nsets = [h \in Handles |-> 0]
    /\ closeError = [h \in Handles |-> -1]

(* the state of a handle that opencbm_configuration_open returns for text *)
OpenHandle(h, text) ==
    /\ phase' = [phase EXCEPT ![h] = "open"]
    /\ Sections' = [Sections EXCEPT ![h] = opencbm_configuration_parse_file(text)]
    /\ Changed' = [Changed EXCEPT ![h] = 0]
    /\ lastSet' = [lastSet EXCEPT ![h] = NoCall]

(* opencbm_configuration_open: fails when fopen(FileName, "rt") fails, which *)
(* it does when the file is missing and may do when it exists (readable)     *)
opencbm_configuration_open(h, readable) ==
    /\ h \in procs /\ phase[h] = "null"
    /\ IF disk.orig # Absent /\ readable
       THEN /\ OpenHandle(h, disk.orig)
            /\ last' = [op |-> "open", h |-> h, handle |-> h,
                        allocFailed |-> FALSE]
       ELSE /\ last' = [op |-> "open", h |-> h, handle |-> 0,
                        allocFailed |-> FALSE]
            /\ UNCHANGED <<phase, Sections, Changed, lastSet>>
    /\ closeError' = [closeError EXCEPT ![h] = -1]
    /\ UNCHANGED <<disk, preFlush, nullStrcmp, procs, nsets>>

(* opencbm_configuration_create: open; if that fails, fopen(Filename, "wt")  *)
(* leaves an empty file, and open is tried again.  how is what the three     *)
(* fopen calls do: <<first "rt", "wt", second "rt">>.                        *)
CreateOutcomes ==
    {<<TRUE, TRUE, TRUE>>, <<FALSE, FALSE, TRUE>>, <<FALSE, TRUE, TRUE>>,
     <<FALSE, TRUE, FALSE>>}

opencbm_configuration_create(h, how) ==
    /\ h \in procs /\ phase[h] = "null"
    /\ IF disk.orig # Absent /\ how[1]
       THEN /\ OpenHandle(h, disk.orig)
            /\ last' = [op |-> "create", h |-> h, handle |-> h]
            /\ disk' = disk
       ELSE IF ~how[2]
       THEN /\ last' = [op |-> "create", h |-> h, handle |-> 0]
            /\ UNCHANGED <<disk, phase, Sections, Changed, lastSet>>
       ELSE /\ disk' = [disk EXCEPT !.orig = <<>>]
            /\ IF how[3]
               THEN /\ OpenHandle(h, <<>>)
                    /\ last' = [op |-> "create", h |-> h, handle |-> h]
               ELSE /\ last' = [op |-> "create", h |-> h, handle |-> 0]
                    /\ UNCHANGED <<phase, Sections, Changed, lastSet>>
    /\ closeError' = [closeError EXCEPT ![h] = -1]
    /\ UNCHANGED <<preFlush, nullStrcmp, procs, nsets>>

(* a process that ran into the undefined strcmp and was stopped *)
Crash(h) ==
    /\ phase' = [phase EXCEPT ![h] = "crashed"]
    /\ Sections' = [Sections EXCEPT ![h] = <<>>]
    /\ Changed' = [Changed EXCEPT ![h] = 0]

(* a call of opencbm_configuration_get_data on an open handle *)
GetData(h, Section, Entry) ==
    /\ h \in procs /\ phase[h] = "open"
    /\ LET g == opencbm_configuration_get_data(Sections[h], Section, Entry)
       IN  IF g.crash
           THEN /\ Crash(h)
                /\ last' = [op |-> "get", h |-> h, Section |-> Section,
                            Entry |-> Entry, done |-> "crashed"]
           ELSE /\ Sections' = [Sections EXCEPT ![h] = g.Sections]
                /\ last' = [op |-> "get", h |-> h, Section |-> Section,
                            Entry |-> Entry, done |-> "returned",
                            ret |-> g.error, ReturnBuffer |-> g.ReturnBuffer]
                /\ UNCHANGED <<phase, Changed>>
    /\ UNCHANGED <<disk, lastSet, preFlush, nullStrcmp, procs, nsets,
                   closeError>>

(* a call of opencbm_configuration_set_data on an open handle.  The record  *)
(* of the call says whether the set before it on this handle had the same   *)
(* Section and Entry and returned 0 (again), and with which value (V1).     *)
SetData(h, Section, Entry, Value) ==
    /\ h \in procs /\ phase[h] = "open" /\ nsets[h] < MaxSets
    /\ nsets' = [nsets EXCEPT ![h] = @ + 1]
    /\ LET r   == opencbm_configuration_set_data(Sections[h], Changed[h],
                                                 Section, Entry, Value)
           again == /\ lastSet[h].op = "set"
                    /\ lastSet[h].done = "returned" /\ lastSet[h].ret = 0
                    /\ lastSet[h].Section = Section /\ lastSet[h].Entry = Entry
           rec == IF r.crash
                  THEN [op |-> "set", h |-> h, Section |-> Section,
                        Entry |-> Entry, Value |-> Value, done |-> "crashed"]
                  ELSE [op |-> "set", h |-> h, Section |-> Section,
                        Entry |-> Entry, Value |-> Value, done |-> "returned",
                        ret |-> r.error, again |-> again,
                        V1 |-> IF again THEN lastSet[h].Value ELSE NULL]
       IN  /\ IF r.crash
              THEN Crash(h)
              ELSE /\ Sections' = [Sections EXCEPT ![h] = r.Sections]
                   /\ Changed' = [Changed EXCEPT ![h] = r.Changed]
                   /\ UNCHANGED phase
           /\ last' = rec
           /\ lastSet' = [lastSet EXCEPT ![h] = rec]
    /\ UNCHANGED <<disk, preFlush, nullStrcmp, procs, closeError>>

(* opencbm_configuration_free_all, and the return of close with error;      *)
(* step is the step of close that was the last: "clean" (nothing to write), *)
(* "fopen", "fprintf", "unlink" or "rename"                                 *)
CloseReturn(h, error, step) ==
    /\ phase' = [phase EXCEPT ![h] = "null"]
    /\ Sections' = [Sections EXCEPT ![h] = <<>>]
    /\ Changed' = [Changed EXCEPT ![h] = 0]
    /\ preFlush' = [preFlush EXCEPT ![h] = NULL]
    /\ lastSet' = [lastSet EXCEPT ![h] = NoCall]
    /\ closeError' = [closeError EXCEPT ![h] = error]
    /\ last' = [op |-> "close", h |-> h, done |-> "returned", ret |-> error,
                step |-> step,
                pre |-> IF preFlush[h] = NULL THEN disk.orig ELSE preFlush[h],
                new |-> WriteText(Sections[h]), set |-> lastSet[h]]

(* a close that starts the writer without looking at Changed *)
close_always_writes(h, fopenOk) ==
    /\ h \in procs /\ phase[h] = "open"
    /\ IF fopenOk
       THEN /\ disk' = [disk EXCEPT !.tmp = <<>>]
            /\ phase' = [phase EXCEPT ![h] = "write"]
            /\ preFlush' = [preFlush EXCEPT ![h] = disk.orig]
            /\ last' = [op |-> "close", h |-> h, done |-> "running"]
            /\ UNCHANGED <<Sections, Changed, lastSet, closeError>>
       ELSE /\ CloseReturn(h, 1, "fopen")
            /\ disk' = disk
    /\ UNCHANGED <<nullStrcmp, procs, nsets>>

(* opencbm_configuration_close, up to the fopen of the temporary file:      *)
(* an unchanged handle is freed; for a changed one the writer starts        *)
opencbm_configuration_close(h, fopenOk) ==
    /\ h \in procs /\ phase[h] = "open"
    /\ IF Changed[h] = 0
       THEN /\ fopenOk
            /\ CloseReturn(h, 0, "clean")
            /\ disk' = disk
       ELSE IF fopenOk
       THEN /\ disk' = [disk EXCEPT !.tmp = <<>>]
            /\ phase' = [phase EXCEPT ![h] = "write"]
            /\ preFlush' = [preFlush EXCEPT ![h] = disk.orig]
            /\ last' = [op |-> "close", h |-> h, done |-> "running"]
            /\ UNCHANGED <<Sections, Changed, lastSet, closeError>>
       ELSE /\ CloseReturn(h, 1, "fopen")
            /\ disk' = disk
    /\ UNCHANGED <<nullStrcmp, procs, nsets>>

(* a writer that puts its lines behind those of the present file *)
write_lines_behind_file(h, n, flushed) ==
    /\ h \in procs /\ phase[h] = "write"
    /\ n \in 0..Len(write_lines(Sections[h], 1))
    /\ disk' = [disk EXCEPT !.tmp =
                   (IF disk.orig = Absent THEN <<>> ELSE disk.orig)
                   \o (IF flushed THEN Written(Sections[h], n) ELSE <<>>)]
    /\ IF n # Len(write_lines(Sections[h], 1))
       THEN CloseReturn(h, 1, "fprintf")
       ELSE /\ phase' = [phase EXCEPT ![h] = "unlink"]
            /\ UNCHANGED <<Sections, Changed, last, lastSet, preFlush,
                           closeError>>
    /\ UNCHANGED <<nullStrcmp, procs, nsets>>

(* opencbm_configuration_write_file, the fprintf loops and fclose: the      *)
(* first n fprintf calls succeed; if that is not all of them, the next one  *)
(* fails, no more is printed and error is 1.  The stream is buffered: what  *)
(* was printed reaches the file when fclose writes it out (flushed), and    *)
(* the result of fclose is not looked at.  After an error the second block  *)
(* is left at once ("if (error != 0) break").                               *)
WriteLines(h, n, flushed) ==
    /\ h \in procs /\ phase[h] = "write"
    /\ n \in 0..Len(write_lines(Sections[h], 1))
    /\ disk' = [disk EXCEPT !.tmp = IF flushed THEN Written(Sections[h], n)
                                               ELSE <<>>]
    /\ IF n # Len(write_lines(Sections[h], 1))
       THEN CloseReturn(h, 1, "fprintf")
       ELSE /\ phase' = [phase EXCEPT ![h] = "unlink"]
            /\ UNCHANGED <<Sections, Changed, last, lastSet, preFlush,
                           closeError>>
    /\ UNCHANGED <<nullStrcmp, procs, nsets>>

(* opencbm_configuration_write_file, arch_unlink(Handle->FileName) *)
Unlink(h, ok) ==
    /\ h \in procs /\ phase[h] = "unlink"
    /\ IF disk.orig # Absent /\ ok
       THEN /\ disk' = [disk EXCEPT !.orig = Absent]
            /\ phase' = [phase EXCEPT ![h] = "rename"]
            /\ UNCHANGED <<Sections, Changed, last, lastSet, preFlush,
                           closeError>>
       ELSE /\ CloseReturn(h, 1, "unlink")
            /\ disk' = disk
    /\ UNCHANGED <<nullStrcmp, procs, nsets>>

(* opencbm_configuration_write_file, rename(FileNameForWrite, FileName) *)
Rename(h, ok) ==
    /\ h \in procs /\ phase[h] = "rename"
    /\ IF disk.tmp # Absent /\ ok
       THEN /\ disk' = [orig |-> disk.tmp, tmp |-> Absent]
            /\ CloseReturn(h, 0, "rename")
       ELSE /\ CloseReturn(h, 1, "rename")
            /\ disk' = disk
    /\ UNCHANGED <<nullStrcmp, procs, nsets>>

Next ==
    \E h \in Handles :
        \/ \E readable \in BOOLEAN : opencbm_configuration_open(h, readable)
        \/ \E how \in CreateOutcomes : opencbm_configuration_create(h, how)
        \/ \E name \in NameArgs : GetData(h, name[1], name[2])
        \/ \E arg \in SetArgs : SetData(h, arg[1], arg[2], arg[3])
        \/ \E fopenOk \in BOOLEAN : opencbm_configuration_close(h, fopenOk)
        \/ \E n \in 0..(MaxFileLen + 2 * MaxSets + 16), flushed \in BOOLEAN :
               WriteLines(h, n, flushed)
        \/ \E ok \in BOOLEAN : Unlink(h, ok)
        \/ \E ok \in BOOLEAN : Rename(h, ok)

Spec == Init /\ [][Next]_vars

----------------------------------------------------------------------------
(* Two processes with a handle each on the same FileName *)

(* the file both processes open *)
TwoFile == <<"[","a","]",NL,"a","=","a",NL>>

(* the set calls of each process: the two change different entries *)
TwoSetArgs(h) ==
    IF h = 1
    THEN {<<<<"b">>, <<"a">>, <<"b">>>>, <<<<"a">>, <<"a">>, <<"b">>>>}
    ELSE {<<<<"b">>, <<"b">>, <<"b">>>>}

InitTwo ==
    /\ disk = [orig |-> TwoFile, tmp |-> Absent]
    /\ phase = [h \in Handles |-> "null"]
    /\ Sections = [h \in Handles |-> <<>>]
    /\ Changed = [h \in Handles |-> 0]
    /\ last = NoCall
    /\ lastSet = [h \in Handles |-> NoCall]
    /\ preFlush = [h \in Handles |-> NULL]
    /\ nullStrcmp \in {"crash", "nomatch"}
    /\ procs = Handles
    /\ nsets = [h \in Handles |-> 0]
    /\ closeError = [h \in Handles |-> -1]

(* no other process is between the fopen and the fclose of the temporary    *)
(* file: FileNameForWrite is the same path for every handle on FileName     *)
(* (FileName + ".tmp"), and the steps of one stream on it are taken here    *)
(* without a step of another process in between                             *)
NoOtherWriter(h) == \A g \in Handles \ {h} : phase[g] # "write"

(* the steps of the two processes in any order.  Both open the file before  *)
(* either calls set; nothing takes a lock on the file or on the temporary   *)
(* file, and the files can be opened, written, deleted and renamed.         *)
NextTwo ==
    \E h \in Handles :
        \/ /\ NoOtherWriter(h)
           /\ \A g \in Handles : nsets[g] = 0
           /\ opencbm_configuration_open(h, TRUE)
        \/ /\ NoOtherWriter(h)
           /\ \E arg \in TwoSetArgs(h) : SetData(h, arg[1], arg[2], arg[3])
        \/ /\ NoOtherWriter(h)
           /\ opencbm_configuration_close(h, TRUE)
        \/ /\ NoOtherWriter(h)
           /\ WriteLines(h, Len(write_lines(Sections[h], 1)), TRUE)
        \/ /\ NoOtherWriter(h)
           /\ Unlink(h, TRUE)
        \/ /\ NoOtherWriter(h)
           /\ Rename(h, TRUE)

SpecTwo == InitTwo /\ [][NextTwo]_vars

----------------------------------------------------------------------------
(* The same program when malloc can fail *)

(* the files of the runs with failing allocations *)
AllocFiles ==
    { <<>>,
      <<"[","a","]",NL,"a","=","a",NL>>,
      <<"a","=","b",NL,"[","b","]",NL,"a",NL,"a","=","a",NL>> }

(* the allocations of a set call that can fail *)
SetAllocs == {"section", "entry", "value"}

InitAlloc ==
    /\ Init
    /\ disk.orig \in AllocFiles

(* opencbm_configuration_open when the malloc of a list element fails in    *)
(* the parser: the result of opencbm_configuration_parse_file is not looked *)
(* at, the file is closed, error is set to 0 and the handle is returned     *)
OpenAllocFail(h, mallocs) ==
    /\ h \in procs /\ phase[h] = "null"
    /\ disk.orig # Absent
    /\ parse_file_alloc(disk.orig, mallocs).error = 1
    /\ phase' = [phase EXCEPT ![h] = "open"]
    /\ Sections' = [Sections EXCEPT ![h] = parse_file_alloc(disk.orig, mallocs).Sections]
    /\ Changed' = [Changed EXCEPT ![h] = 0]
    /\ lastSet' = [lastSet EXCEPT ![h] = NoCall]
    /\ last' = [op |-> "open", h |-> h, handle |-> h, allocFailed |-> TRUE]
    /\ closeError' = [closeError EXCEPT ![h] = -1]
    /\ UNCHANGED <<disk, preFlush, nullStrcmp, procs, nsets>>

(* a call of opencbm_configuration_set_data in which an allocation fails *)
SetDataAllocFail(h, Section, Entry, Value, which) ==
    /\ h \in procs /\ phase[h] = "open" /\ nsets[h] < MaxSets
    /\ set_data_alloc(Sections[h], Changed[h], Section, Entry, Value, which).applies
    /\ nsets' = [nsets EXCEPT ![h] = @ + 1]
    /\ LET r   == set_data_alloc(Sections[h], Changed[h], Section, Entry,
                                 Value, which)
           rec == IF r.crash
                  THEN [op |-> "set", h |-> h, Section |-> Section,
                        Entry |-> Entry, Value |-> Value, done |-> "crashed"]
                  ELSE [op |-> "set", h |-> h, Section |-> Section,
                        Entry |-> Entry, Value |-> Value, done |-> "returned",
                        ret |-> r.error, again |-> FALSE, V1 |-> NULL]
       IN  /\ IF r.crash
              THEN Crash(h)
              ELSE /\ Sections' = [Sections EXCEPT ![h] = r.Sections]
                   /\ Changed' = [Changed EXCEPT ![h] = r.Changed]
                   /\ UNCHANGED phase
           /\ last' = rec
           /\ lastSet' = [lastSet EXCEPT ![h] = rec]
    /\ UNCHANGED <<disk, preFlush, nullStrcmp, procs, closeError>>

(* the set calls of these runs *)
AllocSetArgs ==
    {<<<<"a">>, <<"a">>, <<"b">>>>, <<<<"b">>, <<"a">>, <<"b">>>>,
     <<<<"a">>, <<"b">>, <<"b">>>>}

(* open, set and close with allocations that succeed or fail; the files     *)
(* can be opened, written, deleted and renamed                              *)
NextAlloc ==
    \E h \in Handles :
        \/ opencbm_configuration_open(h, TRUE)
        \/ \E mallocs \in 0..MaxMallocs : OpenAllocFail(h, mallocs)
        \/ \E arg \in AllocSetArgs : SetData(h, arg[1], arg[2], arg[3])
        \/ \E arg \in AllocSetArgs, which \in SetAllocs :
               SetDataAllocFail(h, arg[1], arg[2], arg[3], which)
        \/ opencbm_configuration_close(h, TRUE)
        \/ WriteLines(h, Len(write_lines(Sections[h], 1)), TRUE)
        \/ Unlink(h, TRUE)
        \/ Rename(h, TRUE)

SpecAlloc == InitAlloc /\ [][NextAlloc]_vars

----------------------------------------------------------------------------
(* Properties *)

(* the phases in which a handle exists: open, or inside close               *)
LivePhases == {"open", "write", "unlink", "rename"}

(* a call of set that returned 0 *)
SetReturned0(rec) == rec.op = "set" /\ rec.done = "returned" /\ rec.ret = 0

(* the number of entries named E in the sections named S *)
CountEntries(Secs, S, E) ==
    Cardinality({ij \in UNION {{<<i, j>> : j \in 1..Len(Secs[i].Entries)} :
                                 i \in 1..Len(Secs)} :
                    /\ Secs[ij[1]].Name = S
                    /\ Secs[ij[1]].Entries[ij[2]].Name = E})

(* C1: when set(h,S,E,V) with non-null S, E and V has returned 0, a         *)
(* get(h,S,E) on the store it left returns 0 and yields V.                  *)
C1_SetThenGet ==
    \A h \in Handles :
        (/\ phase[h] = "open" /\ SetReturned0(last) /\ last.h = h
         /\ last.Section # NULL /\ last.Entry # NULL /\ last.Value # NULL)
        => LET g == opencbm_configuration_get_data(Sections[h], last.Section,
                                                   last.Entry)
           IN  ~g.crash /\ g.error = 0 /\ g.ReturnBuffer = last.Value

(* a get that returned the value of the set before it, for the same names *)
C1_Witness ==
    /\ last.op = "get" /\ last.done = "returned" /\ last.ret = 0
    /\ SetReturned0(lastSet[last.h])
    /\ lastSet[last.h].Section = last.Section
    /\ lastSet[last.h].Entry = last.Entry
    /\ lastSet[last.h].Value = last.ReturnBuffer

(* C6: a second set(h,S,E,V2) right after a set(h,S,E,V1), both returning   *)
(* 0, leaves the number of entries named E in section S as the first set    *)
(* left it, and a get(h,S,E) then yields V2.                                *)
C6_SetTwiceOverwrites ==
    [][\A h \in Handles :
          (/\ phase[h] = "open" /\ nsets'[h] = nsets[h] + 1
           /\ SetReturned0(last') /\ last'.again)
          => /\ CountEntries(Sections'[h], last'.Section, last'.Entry)
                   = CountEntries(Sections[h], last'.Section, last'.Entry)
             /\ LET g == opencbm_configuration_get_data(
                             Sections'[h], last'.Section, last'.Entry)
                IN  ~g.crash /\ g.error = 0 /\ g.ReturnBuffer = last'.Value]_vars

(* a second set of the same names with another value has returned 0, and   *)
(* the section holds one entry of that name                                 *)
C6_Witness ==
    /\ SetReturned0(last) /\ last.again /\ last.V1 # last.Value
    /\ phase[last.h] = "open"
    /\ CountEntries(Sections[last.h], last.Section, last.Entry) = 1

C8_CloseWritesIffDirty ==
    [][\A h \in Handles :
          /\ (phase[h] = "open" /\ lastSet[h].op # "set") => Changed[h] = 0
          /\ (phase[h] = "open" /\ phase'[h] = "open" /\ Changed[h] = 1)
             => Changed'[h] = 1
          /\ (phase[h] = "open" /\ phase'[h] \notin {"open", "crashed"})
             => IF Changed[h] = 0
                THEN /\ disk' = disk /\ phase'[h] = "null"
                     /\ last'.op = "close" /\ last'.step = "clean"
                     /\ last'.ret = 0
                ELSE \/ phase'[h] = "write" /\ disk'.tmp = <<>>
                     \/ /\ phase'[h] = "null" /\ last'.op = "close"
                        /\ last'.step = "fopen" /\ last'.ret = 1
                        /\ disk' = disk]_vars

(* a handle without a set since open was closed: close returned 0 and      *)
(* there is no temporary file                                               *)
C8_Witness ==
    /\ last.op = "close" /\ last.done = "returned" /\ last.step = "clean"
    /\ last.ret = 0 /\ last.set.op # "set"
    /\ disk.tmp = Absent /\ disk.orig = last.pre

(* C2: after a set(h,S,E,V) with non-null S, E and V that returned 0 and a  *)
(* close(h) that returned 0, the file parses to a store in which            *)
(* get(S,E) returns 0 and yields V.  Stated for the closes that left the    *)
(* whole text of the store in the file.                                     *)
C2_SetCloseReopen ==
    (/\ last.op = "close" /\ last.done = "returned" /\ last.ret = 0
     /\ SetReturned0(last.set)
     /\ last.set.Section # NULL /\ last.set.Entry # NULL
     /\ last.set.Value # NULL
     /\ disk.orig = last.new)
    => /\ disk.orig # Absent
       /\ LET g == opencbm_configuration_get_data(
                       opencbm_configuration_parse_file(disk.orig),
                       last.set.Section, last.set.Entry)
          IN  ~g.crash /\ g.error = 0 /\ g.ReturnBuffer = last.set.Value

(* C3: for the store M of an open handle, parsing the file written from M   *)
(* gives M again (the same sections with name and comment, the same         *)
(* entries with name, value and comment, in the same order), and writing    *)
(* that store gives the same file.                                          *)
C3_RoundTrip ==
    \A h \in Handles :
        phase[h] = "open"
        => /\ opencbm_configuration_parse_file(WriteText(Sections[h]))
                 = Sections[h]
           /\ WriteText(opencbm_configuration_parse_file(WriteText(Sections[h])))
                 = WriteText(Sections[h])

(* C4: from the start of a close that writes until it has returned, the     *)
(* original file is there and holds either all of what it held before the   *)
(* close or all of the new text.                                            *)
C4_AtomicReplace ==
    /\ \A h \in Handles :
           phase[h] \in {"write", "unlink", "rename"}
           => disk.orig \in {preFlush[h], WriteText(Sections[h])} \ {Absent}
    /\ (last.op = "close" /\ last.done = "returned" /\ last.step # "clean")
       => disk.orig \in {last.pre, last.new} \ {Absent}

(* the lines of a text, without their newlines *)
RECURSIVE Lines(_)
Lines(text) ==
    IF text = <<>> THEN <<>>
    ELSE LET nl == strchr(text, NL)
         IN  IF nl = 0 THEN <<text>>
             ELSE <<SubSeq(text, 1, nl - 1)>>
                  \o Lines(SubSeq(text, nl + 1, Len(text)))

(* where the blanks that stand directly before position p begin *)
RECURSIVE BlanksBefore(_, _)
BlanksBefore(line, p) ==
    IF p > 1 /\ line[p - 1] = " " THEN BlanksBefore(line, p - 1) ELSE p

(* the comment of a line with a '#': from the blanks before the first '#'   *)
(* to the end of the line                                                   *)
CommentOf(line) ==
    SubSeq(line, BlanksBefore(line, strchr(line, "#")), Len(line))

(* the comments of a store in the order of its lines: for each section the  *)
(* comment of its header (the first section has none), then its entries'    *)
RECURSIVE StoredComments(_, _)
StoredComments(Secs, i) ==
    IF i > Len(Secs) THEN <<>>
    ELSE (IF i # 1 THEN <<Secs[i].Comment>> ELSE <<>>)
         \o [j \in 1..Len(Secs[i].Entries) |-> Secs[i].Entries[j].Comment]
         \o StoredComments(Secs, i + 1)

(* text ends with tail *)
EndsWith(text, tail) ==
    /\ Len(tail) <= Len(text)
    /\ SubSeq(text, Len(text) - Len(tail) + 1, Len(text)) = tail

(* C5: right after open, for every line of the file that has a '#', the     *)
(* item stored for that line has as its comment the text from the blanks    *)
(* before the first '#' to the end of the line, the line written for that   *)
(* item ends with that comment, and a line that begins with '#' is written  *)
(* as it was read.                                                          *)
C5_CommentsKept ==
    \A h \in Handles :
        (/\ phase[h] = "open" /\ last.op \in {"open", "create"}
         /\ last.handle = h /\ disk.orig # Absent)
        => \A k \in 1..Len(Lines(disk.orig)) :
               strchr(Lines(disk.orig)[k], "#") # 0
               => /\ k <= Len(StoredComments(Sections[h], 1))
                  /\ StoredComments(Sections[h], 1)[k]
                         = CommentOf(Lines(disk.orig)[k])
                  /\ EndsWith(write_lines(Sections[h], 1)[k],
                              CommentOf(Lines(disk.orig)[k]) \o <<NL>>)
                  /\ Lines(disk.orig)[k][1] = "#"
                     => write_lines(Sections[h], 1)[k]
                            = Lines(disk.orig)[k] \o <<NL>>

(* C7: a get(h,S,E) with non-null S and E, when no section named S holds an *)
(* entry named E, returns a value other than 0 and leaves the sections,     *)
(* their entries and values and Changed as they were.                       *)
C7_GetMissing ==
    [][\A h \in Handles : \A name \in NameArgs :
          (/\ GetData(h, name[1], name[2])
           /\ name[1] # NULL /\ name[2] # NULL
           /\ CountEntries(Sections[h], name[1], name[2]) = 0)
          => /\ last'.done = "returned" /\ last'.ret # 0
             /\ phase'[h] = "open"
             /\ Sections'[h] = Sections[h] /\ Changed'[h] = Changed[h]]_vars

(* C9: when the fopen of the temporary file fails, an fprintf fails or the  *)
(* text printed is not written out at fclose, close returns 1 at the end    *)
(* of that step with the handle freed and the original file as it was: no   *)
(* unlink and no rename follow.                                             *)
C9_WriteFailureStops ==
    [][\A h \in Handles :
          (\/ /\ phase[h] = "open" /\ Changed[h] = 1
              /\ opencbm_configuration_close(h, FALSE)
           \/ \E n \in 0..Len(write_lines(Sections[h], 1)) :
                  \/ WriteLines(h, n, FALSE)
                  \/ n < Len(write_lines(Sections[h], 1)) /\ WriteLines(h, n, TRUE))
          => /\ phase'[h] = "null" /\ Sections'[h] = <<>>
             /\ last'.op = "close" /\ last'.done = "returned" /\ last'.ret = 1
             /\ disk'.orig = disk.orig]_vars

(* the positions of the sections named S *)
SectionsNamed(Secs, S) == {i \in 1..Len(Secs) : Secs[i].Name = S}

(* C11: a set(h,S,E,V) that returns 0 when no section is named S links the  *)
(* new section as the last of the list: the sections that were there keep   *)
(* their positions in front of it, and the first section is still the one   *)
(* without a name.                                                          *)
C11_NewSectionLast ==
    [][\A h \in Handles :
          (/\ phase[h] = "open" /\ nsets'[h] = nsets[h] + 1
           /\ SetReturned0(last')
           /\ SectionsNamed(Sections[h], last'.Section) = {})
          => /\ Len(Sections'[h]) = Len(Sections[h]) + 1
             /\ SubSeq(Sections'[h], 1, Len(Sections[h])) = Sections[h]
             /\ Sections'[h][Len(Sections'[h])].Name = last'.Section
             /\ Sections'[h][1].Name = NULL]_vars

(* a set has made a section behind two parsed sections with entries *)
C11_Witness ==
    /\ SetReturned0(last) /\ phase[last.h] = "open"
    /\ Len(Sections[last.h]) >= 3
    /\ SectionsNamed(Sections[last.h], last.Section) = {Len(Sections[last.h])}
    /\ Sections[last.h][2].Entries # <<>>
    /\ Len(Sections[last.h][Len(Sections[last.h])].Entries) = 1
    /\ nsets[last.h] = 1

(* the positions of the entries named E *)
EntriesNamed(Entries, E) == {j \in 1..Len(Entries) : Entries[j].Name = E}

(* the smallest element of a set of numbers that is not empty *)
Least(S) == CHOOSE m \in S : \A n \in S : m <= n

(* C12: with NULL as the section argument the first, name-less section is   *)
(* the one looked at: get(h,NULL,E) returns 0 and yields the value of its    *)
(* first entry named E when it has one, and set(h,NULL,E,V) returns 0 and   *)
(* leaves an entry named E with value V in it.                              *)
C12_NullSectionIsGlobal ==
    [][\A h \in Handles : \A E \in Names :
          /\ (/\ GetData(h, NULL, E)
              /\ EntriesNamed(Sections[h][1].Entries, E) # {})
             => /\ last'.done = "returned" /\ last'.ret = 0
                /\ last'.ReturnBuffer =
                       Sections[h][1].Entries[
                           Least(EntriesNamed(Sections[h][1].Entries, E))].Value
          /\ \A V \in ValueArgs :
                 SetData(h, NULL, E, V)
                 => /\ last'.done = "returned" /\ last'.ret = 0
                    /\ \E j \in EntriesNamed(Sections'[h][1].Entries, E) :
                           Sections'[h][1].Entries[j].Value = V]_vars

(* C13: a create that finds a file leaves its content as it was, whether it *)
(* returns a handle or NULL.                                                *)
C13_CreateKeepsFile ==
    [][\A h \in Handles : \A how \in CreateOutcomes :
          (opencbm_configuration_create(h, how) /\ disk.orig # Absent)
          => disk'.orig = disk.orig]_vars

(* the position of the last entry with a name, 0 when there is none *)
LastNamed(Entries) ==
    IF \A j \in 1..Len(Entries) : Entries[j].Name = NULL THEN 0
    ELSE CHOOSE j \in 1..Len(Entries) :
             /\ Entries[j].Name # NULL
             /\ \A k \in (j + 1)..Len(Entries) : Entries[k].Name = NULL

(* C15: a set(h,S,E,V) for a section S that is there and has no entry named *)
(* E passes the entries without a name, returns 0, and leaves the new entry *)
(* directly behind the last entry with a name (as the first entry when no   *)
(* entry has a name), with the entries in front of it as they were.         *)
C15_InsertAfterLastNamed ==
    [][\A h \in Handles : \A arg \in SetArgs :
          (/\ SetData(h, arg[1], arg[2], arg[3])
           /\ arg[1] # NULL /\ arg[2] # NULL
           /\ SectionsNamed(Sections[h], arg[1]) # {}
           /\ EntriesNamed(Sections[h][Least(SectionsNamed(Sections[h], arg[1]))]
                               .Entries, arg[2]) = {})
          => LET i   == Least(SectionsNamed(Sections[h], arg[1]))
                 old == Sections[h][i].Entries
                 pos == LastNamed(old) + 1
             IN  /\ last'.done = "returned" /\ last'.ret = 0
                 /\ Len(Sections'[h]) = Len(Sections[h])
                 /\ Len(Sections'[h][i].Entries) >= pos
                 /\ SubSeq(Sections'[h][i].Entries, 1, pos - 1)
                        = SubSeq(old, 1, pos - 1)
                 /\ Sections'[h][i].Entries[pos].Name = arg[2]
                 /\ Sections'[h][i].Entries[pos].Value = arg[3]]_vars

(* a is b with some elements left out *)
RECURSIVE IsSubseq(_, _)
IsSubseq(a, b) ==
    IF a = <<>> THEN TRUE
    ELSE IF b = <<>> THEN FALSE
    ELSE IF Head(a) = Head(b) THEN IsSubseq(Tail(a), Tail(b))
    ELSE IsSubseq(a, Tail(b))

(* the lines of a section without their values: names and comments *)
EntryKeys(Entries) ==
    [j \in 1..Len(Entries) |->
        [Name |-> Entries[j].Name, Comment |-> Entries[j].Comment]]

(* C16: a set call that returns leaves every section in its place and, in   *)
(* each of them, every entry that was there (with or without a name) in     *)
(* the same order.                                                          *)
C16_SetRemovesNothing ==
    [][\A h \in Handles :
          (/\ phase[h] = "open" /\ nsets'[h] = nsets[h] + 1
           /\ last'.op = "set" /\ last'.done = "returned")
          => /\ Len(Sections'[h]) >= Len(Sections[h])
             /\ \A i \in 1..Len(Sections[h]) :
                    /\ Sections'[h][i].Name = Sections[h][i].Name
                    /\ Sections'[h][i].Comment = Sections[h][i].Comment
                    /\ IsSubseq(EntryKeys(Sections[h][i].Entries),
                                EntryKeys(Sections'[h][i].Entries))]_vars

(* the items of a store in list order: for each section its header (the     *)
(* first section has none), then its entries                                *)
RECURSIVE StoredItems(_, _)
StoredItems(Secs, i) ==
    IF i > Len(Secs) THEN <<>>
    ELSE (IF i # 1 THEN <<[kind |-> "section", Name |-> Secs[i].Name,
                           Value |-> NULL, Comment |-> Secs[i].Comment]>>
          ELSE <<>>)
         \o [j \in 1..Len(Secs[i].Entries) |->
                [kind |-> "entry", Name |-> Secs[i].Entries[j].Name,
                 Value |-> Secs[i].Entries[j].Value,
                 Comment |-> Secs[i].Entries[j].Comment]]
         \o StoredItems(Secs, i + 1)

(* text begins with head *)
BeginsWith(text, head) ==
    Len(head) <= Len(text) /\ SubSeq(text, 1, Len(head)) = head

(* item is what a line of the file is stored as: a header line "[name..."   *)
(* as a section of that name, any other line as an entry whose name and     *)
(* '=', or whose value when it has no name, begin the line; the comment of  *)
(* the item ends the line                                                   *)
ItemOfLine(item, line) ==
    /\ item.kind = "section" <=> (line # <<>> /\ line[1] = "[")
    /\ EndsWith(line, item.Comment)
    /\ IF item.kind = "section"
       THEN item.Name # NULL /\ BeginsWith(line, <<"[">> \o item.Name)
       ELSE IF item.Name # NULL
       THEN /\ BeginsWith(line, item.Name \o <<"=">>)
            /\ item.Value # NULL
            /\ BeginsWith(SubSeq(line, Len(item.Name) + 2, Len(line)), item.Value)
       ELSE item.Value = NULL \/ BeginsWith(line, item.Value)

(* C18: right after open, the k-th item of the store, counted through the   *)
(* sections in list order, is what the k-th line of the file is stored as:  *)
(* the sections stand in the order of their header lines, each entry        *)
(* stands in the section of the last header before it, in line order, and   *)
(* no line is without its item.                                             *)
C18_ParseOrder ==
    \A h \in Handles :
        (/\ phase[h] = "open" /\ last.op \in {"open", "create"}
         /\ last.handle = h /\ disk.orig # Absent)
        => /\ Len(StoredItems(Sections[h], 1)) >= Len(Lines(disk.orig))
           /\ \A k \in 1..Len(Lines(disk.orig)) :
                  ItemOfLine(StoredItems(Sections[h], 1)[k], Lines(disk.orig)[k])

(* a file with an entry in front of its header and, behind the header, a    *)
(* line without a name followed by an entry has been opened                 *)
C18_Witness ==
    \E h \in Handles :
        /\ phase[h] = "open" /\ last.op = "open" /\ last.handle = h
        /\ Len(Sections[h]) >= 2
        /\ Sections[h][1].Entries # <<>>
        /\ Sections[h][1].Entries[1].Name # NULL
        /\ \E j \in 2..Len(Sections[h][2].Entries) :
               /\ Sections[h][2].Entries[j - 1].Name = NULL
               /\ Sections[h][2].Entries[j].Name # NULL

(* C14: an open during which the parser ran out of memory returns NULL,     *)
(* not a handle.                                                            *)
C14_AllocFailureNullHandle ==
    (last.op = "open" /\ last.allocFailed) => last.handle = 0

(* C17: a call on an open handle that changes its sections or entries       *)
(* leaves Changed set, whatever the call returns.                           *)
C17_ChangedWhenModified ==
    [][\A h \in Handles :
          (phase[h] = "open" /\ phase'[h] = "open"
           /\ Sections'[h] # Sections[h])
          => Changed'[h] = 1]_vars

(* the file holds an update of process h: an entry that h sets has there    *)
(* the value that h gives it                                                *)
HasUpdate(text, h) ==
    \E arg \in TwoSetArgs(h) :
        LET g == opencbm_configuration_get_data(
                     opencbm_configuration_parse_file(text), arg[1], arg[2])
        IN  /\ ~g.crash
            /\ g.error = 0
            /\ g.ReturnBuffer = arg[3]

(* both processes opened the file, called set on their handle and closed    *)
(* it, and both closes returned 0                                           *)
BothClosed0 ==
    \A h \in Handles : nsets[h] >= 1 /\ closeError[h] = 0

(* C19: two handles on the same path, each sets a different entry: whenever *)
(* both closes have returned 0, the file is what the close that returned    *)
(* last wrote, it holds the update of that handle and the update of the     *)
(* other handle is lost.                                                    *)
C19_LastRenameWins ==
    BothClosed0 =>
        /\ last.op = "close" /\ last.step = "rename"
        /\ disk.orig = last.new
        /\ HasUpdate(disk.orig, last.h)
        /\ \A g \in Handles \ {last.h} : ~HasUpdate(disk.orig, g)

(* both closes returned 0 after a set that returned 0 on each handle, the   *)
(* file had the update of the first process when the second close began,    *)
(* and the file now has only the update of the second                       *)
C19_Witness ==
    /\ BothClosed0
    /\ last.op = "close" /\ last.ret = 0 /\ last.step = "rename"
    /\ last.set.op = "set" /\ last.set.done = "returned" /\ last.set.ret = 0
    /\ last.pre # Absent
    /\ \E g \in Handles \ {last.h} :
           /\ HasUpdate(last.pre, g)
           /\ ~HasUpdate(disk.orig, g)
    /\ HasUpdate(disk.orig, last.h)

====
